---- MODULE Spec2Model ----
(***************************************************************************)
(* AL-Ranked: the ranking-fetch pipeline of src/al_ranked/__main__.py and  *)
(* of its earlier snapshot src/ALRanked/__main__.py.                       *)
(*                                                                         *)
(* main() calls get_top_media once per category; get_top_media fetches    *)
(* pages 1 and 2 through post_graphql_request and merges the items into an *)
(* insertion-ordered dict keyed by id; new_csv writes one file per         *)
(* category.  The remote catalog is the environment: each request draws    *)
(* its outcome and its items from bounded sets.                            *)
(*                                                                         *)
(* Python values: an optional str is None (the empty tuple) or Some(s)     *)
(* (a one-element tuple); a dict with insertion order is a sequence of     *)
(* entries with distinct keys.                                             *)
(***************************************************************************)
EXTENDS Integers, Sequences, FiniteSets, TLC

VARIABLES
    snapshot,      \* which of the two snapshots runs: "al_ranked" or "ALRanked"
    pc,            \* position of the run: main / request / merge / returned / done / aborted
    cat,           \* main: index of the category whose get_top_media call is next or running
    args,          \* get_top_media*: the function called (fn) and its arguments
    variables,     \* get_top_media: the `variables` dict
    sort_criteria, \* get_top_media: the sort criterion chosen at entry
    page,          \* get_top_media: index into Pages of the for loop
    pending,       \* get_top_media: items of the current page not yet iterated
    ranked_media,  \* get_top_media: the dict being built, in insertion order
    rankings,      \* main: the rankings dict, in insertion order
    files,         \* the files written by new_csv, in writing order
    requests,      \* every JSON body posted so far, in order
    responses,     \* what the remote did with each request, and what the call gave back
    raised,        \* the exception that ended the run, or NoException
    printed        \* the diagnostics printed so far

vars == <<snapshot, pc, cat, args, variables, sort_criteria, page, pending, ranked_media,
          rankings, files, requests, responses, raised, printed>>

----------------------------------------------------------------------------
\* Bounds of the remote catalog.

\* ids the remote may return are 1..MaxId
MaxId == 2
\* the longest page the remote returns (never above PER_PAGE)
MaxPageLen == 2
\* the most items the remote returns over one run, all pages together
MaxServed == 2
\* the most items the remote returns to one direct call of get_top_media
MaxCallServed == 4

Ids == 1..MaxId
\* the catalog's romaji title of each id
Romaji == <<"A", "B", "C", "D">>
\* the items of a page, reduced to the fields get_top_media reads
Items == { [id |-> i, title |-> [romaji |-> Romaji[i]]] : i \in Ids }

----------------------------------------------------------------------------
\* Python values.

None == <<>>
Some(s) == <<s>>

\* truthiness of an optional str: None and "" are falsy
Truthy(v) == v # None /\ v[1] # ""

RECURSIVE Join(_, _)
\* sep.join(strs)
Join(sep, strs) ==
    IF strs = <<>> THEN ""
    ELSE IF Len(strs) = 1 THEN strs[1]
    ELSE strs[1] \o sep \o Join(sep, Tail(strs))

\* position of key in the dict d, 0 when absent
DictIndex(d, key) ==
    IF \E i \in 1..Len(d) : d[i].id = key
    THEN CHOOSE i \in 1..Len(d) : d[i].id = key
    ELSE 0

\* a list: every assignment appends
DictSet_append(d, key, value) == Append(d, value)

\* d[key] = value: an existing key keeps its position and gets the new value,
\* a new key is appended
DictSet(d, key, value) ==
    IF DictIndex(d, key) = 0
    THEN Append(d, value)
    ELSE [d EXCEPT ![DictIndex(d, key)] = value]

----------------------------------------------------------------------------
\* Module constants.

POPULARITY_SORT == "POPULARITY_DESC"
SCORE_SORT == "SCORE_DESC"
PER_PAGE == 50
\* a third page
Pages_three == <<1, 2, 3>>

Pages == <<1, 2>>

NoException == [exc |-> "none", in |-> "none"]

\* main: the rankings dict literal, in evaluation order
Categories == <<
    [name |-> "All Anime",
     fn |-> "get_top_media", media_type |-> "ANIME", media_status |-> None,
     country |-> None,            genre |-> None],
    [name |-> "All Manga",
     fn |-> "get_top_media", media_type |-> "MANGA", media_status |-> None,
     country |-> None,            genre |-> None],
    [name |-> "Releasing Anime",
     fn |-> "get_top_media", media_type |-> "ANIME", media_status |-> Some("RELEASING"),
     country |-> None,            genre |-> None],
    [name |-> "Unreleased Anime",
     fn |-> "get_top_media", media_type |-> "ANIME", media_status |-> Some("NOT_YET_RELEASED"),
     country |-> None,            genre |-> None],
    [name |-> "Releasing Manga",
     fn |-> "get_top_media", media_type |-> "MANGA", media_status |-> Some("RELEASING"),
     country |-> None,            genre |-> None],
    [name |-> "Unreleased Manga",
     fn |-> "get_top_media", media_type |-> "MANGA", media_status |-> Some("NOT_YET_RELEASED"),
     country |-> None,            genre |-> None],
    [name |-> "All Manhwa",
     fn |-> "get_top_media", media_type |-> "MANGA", media_status |-> None,
     country |-> Some("KR"),      genre |-> None],
    [name |-> "All Hentai",
     fn |-> "get_top_media", media_type |-> "ANIME", media_status |-> None,
     country |-> None,            genre |-> Some("hentai")],
    [name |-> "All Hentai Manga",
     fn |-> "get_top_media", media_type |-> "MANGA", media_status |-> None,
     country |-> None,            genre |-> Some("hentai")] >>

----------------------------------------------------------------------------
\* build_query

\* the query_parts dict, in insertion order
QueryParts(media_type, media_status, country, genre) ==
    << [key |-> "type",            value |-> Some(media_type)],
       [key |-> "status",          value |-> media_status],
       [key |-> "countryOfOrigin", value |-> country],
       [key |-> "genre",
        value |-> IF Truthy(genre) THEN Some("\"" \o genre[1] \o "\"") ELSE None] >>

RECURSIVE FilterStrings(_)
\* [f"{key}: {value}" for key, value in query_parts.items() if value is not None]
FilterStrings(parts) ==
    IF parts = <<>> THEN <<>>
    ELSE (IF parts[1].value # None
          THEN << parts[1].key \o ": " \o parts[1].value[1] >>
          ELSE <<>>) \o FilterStrings(Tail(parts))

\* The returned text is a fixed template with two holes, media({query_filters},
\* sort: {sort_criteria}); the query is represented by what fills them.
build_query(media_type, sort, media_status, country, genre) ==
    [query_filters |-> Join(", ", FilterStrings(QueryParts(media_type, media_status,
                                                            country, genre))),
     sort_criteria |-> sort]

----------------------------------------------------------------------------
\* The earlier snapshot: one function per kind of filter, the query concatenated.

\* ALRanked main: the calls in order
LegacyCategories == <<
    [name |-> "All Anime",        fn |-> "get_top_media",
     media_type |-> "ANIME",      media_status |-> None, country |-> None, genre |-> None],
    [name |-> "All Manga",        fn |-> "get_top_media",
     media_type |-> "MANGA",      media_status |-> None, country |-> None, genre |-> None],
    [name |-> "Releasing Anime",  fn |-> "get_top_media_by_status",
     media_type |-> "ANIME",      media_status |-> Some("RELEASING"),
     country |-> None,            genre |-> None],
    [name |-> "Unreleased Anime", fn |-> "get_top_media_by_status",
     media_type |-> "ANIME",      media_status |-> Some("NOT_YET_RELEASED"),
     country |-> None,            genre |-> None],
    [name |-> "Releasing Manga",  fn |-> "get_top_media_by_status",
     media_type |-> "MANGA",      media_status |-> Some("RELEASING"),
     country |-> None,            genre |-> None],
    [name |-> "Unreleased Manga", fn |-> "get_top_media_by_status",
     media_type |-> "MANGA",      media_status |-> Some("NOT_YET_RELEASED"),
     country |-> None,            genre |-> None],
    [name |-> "All Manhwa",       fn |-> "get_top_media_by_country",
     media_type |-> "MANGA",      media_status |-> None,
     country |-> Some("KR"),      genre |-> None],
    [name |-> "All Hentai",       fn |-> "get_top_media_by_genre",
     media_type |-> "ANIME",      media_status |-> None,
     country |-> None,            genre |-> Some("hentai")],
    [name |-> "All Hentai Manga", fn |-> "get_top_media_by_genre",
     media_type |-> "MANGA",      media_status |-> None,
     country |-> None,            genre |-> Some("hentai")] >>

\* ALRanked get_top_media_by_status: the sort criterion
LegacySortCriteria(a) ==
    IF a.fn = "get_top_media_by_status"
    THEN (IF a.media_status = Some("NOT_YET_RELEASED")
          THEN "POPULARITY_DESC" ELSE "SCORE_DESC")
    ELSE "SCORE_DESC"

\* ALRanked get_top_media*: the arguments of media(...) as the function concatenates them
LegacyQuery(a, sort) ==
    [query_filters |->
        CASE a.fn = "get_top_media" ->
                "type: " \o a.media_type
          [] a.fn = "get_top_media_by_status" ->
                "type: " \o a.media_type \o ", status: " \o a.media_status[1]
          [] a.fn = "get_top_media_by_country" ->
                "type: " \o a.media_type \o ", countryOfOrigin: " \o a.country[1]
          [] a.fn = "get_top_media_by_genre" ->
                "type: " \o a.media_type \o ", genre: \"" \o a.genre[1] \o "\"",
     sort_criteria |-> sort]

----------------------------------------------------------------------------
\* post_graphql_request

\* What the remote and the network do with one request:
\*   ok                  2xx, JSON of the expected shape
\*   bad_shape           2xx, JSON without the "data" key
\*   http_error          non-2xx status
\*   connection_refused  no connection
\*   connect_timeout     the timeout elapses while connecting
\*   read_timeout        the timeout elapses while reading the response
Outcomes == {"ok", "bad_shape", "http_error", "connection_refused",
             "connect_timeout", "read_timeout"}

\* ALRanked posts without a timeout: no outcome of a timeout elapsing
LegacyOutcomes == {"ok", "bad_shape", "http_error", "connection_refused"}

\* the exception requests.post / raise_for_status raises on the outcome
ExceptionOf(outcome) ==
    CASE outcome = "http_error"         -> "HTTPError"
      [] outcome = "connection_refused" -> "ConnectionError"
      [] outcome = "connect_timeout"    -> "ConnectTimeout"
      [] outcome = "read_timeout"       -> "ReadTimeout"
      [] OTHER                          -> "none"

\* requests.exceptions: the direct base classes
Bases(cls) ==
    CASE cls = "HTTPError"       -> {"RequestException"}
      [] cls = "ConnectionError" -> {"RequestException"}
      [] cls = "Timeout"         -> {"RequestException"}
      [] cls = "ConnectTimeout"  -> {"ConnectionError", "Timeout"}
      [] cls = "ReadTimeout"     -> {"Timeout"}
      [] OTHER                   -> {}

RECURSIVE IsInstance(_, _)
IsInstance(cls, target) ==
    cls = target \/ \E b \in Bases(cls) : IsInstance(b, target)

\* response.json()
ResponseJson(outcome, items) ==
    IF outcome = "ok"
    THEN [data |-> [Page |-> [media |-> items]]]
    ELSE [errors |-> <<>>]

\* ret = "json": returned response.json(); ret = "None": an except clause ran and the
\* function fell off its end; ret = "raise": the exception left the function
post_graphql_request(outcome, items) ==
    LET exc == ExceptionOf(outcome) IN
    IF exc = "none"
    THEN [ret |-> "json", json |-> ResponseJson(outcome, items), printed |-> <<>>]
    ELSE IF IsInstance(exc, "HTTPError")
    THEN [ret |-> "None", printed |-> <<"Error", "Request Headers">>]
    ELSE IF IsInstance(exc, "ConnectionError")
    THEN [ret |-> "None", printed |-> <<"Error connecting to API">>]
    ELSE [ret |-> "raise", exc |-> exc, printed |-> <<>>]

\* ALRanked post_graphql_request: only HTTPError is caught
LegacyPostGraphqlRequest(outcome, items) ==
    LET exc == ExceptionOf(outcome) IN
    IF exc = "none"
    THEN [ret |-> "json", json |-> ResponseJson(outcome, items), printed |-> <<>>]
    ELSE IF IsInstance(exc, "HTTPError")
    THEN [ret |-> "None", printed |-> <<"Error", "Request Headers">>]
    ELSE [ret |-> "raise", exc |-> exc, printed |-> <<>>]

----------------------------------------------------------------------------
\* get_top_media

\* the popularity sort when no status is given
SortCriteria_by_type(media_status) ==
    IF media_status = None THEN POPULARITY_SORT ELSE SCORE_SORT

SortCriteria(media_status) ==
    IF media_status = Some("NOT_YET_RELEASED") THEN POPULARITY_SORT ELSE SCORE_SORT

\* a rank counted from 0
NextRank_zero_based(d) == Len(d)

\* len(ranked_media) + 1
NextRank(d) == Len(d) + 1

RECURSIVE SumLen(_)
SumLen(rs) == IF rs = <<>> THEN 0 ELSE Len(rs[1].items) + SumLen(Tail(rs))

\* the pages the remote may still return in this run
PageSet ==
    LET room == (IF cat = 0 THEN MaxCallServed ELSE MaxServed) - SumLen(responses)
        top  == IF room < MaxPageLen THEN room ELSE MaxPageLen
    IN  UNION { [1..n -> Items] : n \in 0..top }

\* lines 146-148: entry of get_top_media(a.media_type, a.media_status, a.country, a.genre)
\* (ALRanked: of a.fn with the arguments it takes)
Enter(a) ==
    /\ args' = a
    /\ variables' = [perPage |-> PER_PAGE]
    /\ ranked_media' = <<>>
    /\ sort_criteria' = IF snapshot = "al_ranked"
                        THEN SortCriteria(a.media_status)
                        ELSE LegacySortCriteria(a)
    /\ page' = 1
    /\ pending' = <<>>
    /\ pc' = "request"

\* lines 150-154: one iteration of the page loop up to the lookup of the items
Request ==
    /\ pc = "request"
    /\ \E outcome \in (IF snapshot = "al_ranked" THEN Outcomes ELSE LegacyOutcomes) :
       \E items \in (IF outcome = "ok" THEN PageSet ELSE {<<>>}) :
          LET vs    == [k \in DOMAIN variables \cup {"page"} |->
                           IF k = "page" THEN Pages[page] ELSE variables[k]]
              query == IF snapshot = "al_ranked"
                       THEN build_query(args.media_type, sort_criteria, args.media_status,
                                        args.country, args.genre)
                       ELSE LegacyQuery(args, sort_criteria)
              r     == IF snapshot = "al_ranked"
                       THEN post_graphql_request(outcome, items)
                       ELSE LegacyPostGraphqlRequest(outcome, items)
          IN  /\ variables' = vs
              /\ requests' = Append(requests, [query |-> query, variables |-> vs])
              /\ responses' = Append(responses,
                                     [outcome |-> outcome, items |-> items, ret |-> r.ret])
              /\ printed' = printed \o r.printed
              /\ CASE r.ret = "raise" ->
                        /\ raised' = [exc |-> r.exc, in |-> "post_graphql_request"]
                        /\ pc' = "aborted"
                        /\ pending' = <<>>
                   [] r.ret = "None" ->
                        \* None["data"]
                        /\ raised' = [exc |-> "TypeError", in |-> "get_top_media"]
                        /\ pc' = "aborted"
                        /\ pending' = <<>>
                   [] r.ret = "json" /\ "data" \notin DOMAIN r.json ->
                        /\ raised' = [exc |-> "KeyError", in |-> "get_top_media"]
                        /\ pc' = "aborted"
                        /\ pending' = <<>>
                   [] OTHER ->
                        /\ raised' = raised
                        /\ pc' = "merge"
                        /\ pending' = r.json.data.Page.media
    /\ UNCHANGED <<snapshot, cat, args, sort_criteria, page, ranked_media, rankings, files>>

\* lines 154-159: the loop body for one item
MergeItem ==
    /\ pc = "merge"
    /\ pending # <<>>
    /\ LET item == Head(pending) IN
       ranked_media' = DictSet(ranked_media, item.id,
                               [id |-> item.id, title |-> item.title.romaji,
                                rank |-> NextRank(ranked_media)])
    /\ pending' = Tail(pending)
    /\ UNCHANGED <<snapshot, pc, cat, args, variables, sort_criteria, page, rankings,
                   files, requests, responses, raised, printed>>

\* lines 149, 160: the items are exhausted; next page, or return ranked_media
EndPage ==
    /\ pc = "merge"
    /\ pending = <<>>
    /\ IF page < Len(Pages)
       THEN page' = page + 1 /\ pc' = "request"
       ELSE page' = page /\ pc' = "returned"
    /\ UNCHANGED <<snapshot, cat, args, variables, sort_criteria, pending, ranked_media,
                   rankings, files, requests, responses, raised, printed>>

----------------------------------------------------------------------------
\* main and new_csv

\* lines 193-201: the next get_top_media call of the dict literal
MainCall ==
    /\ pc = "main"
    /\ cat <= Len(Categories)
    /\ LET c == IF snapshot = "al_ranked" THEN Categories[cat] ELSE LegacyCategories[cat]
       IN  Enter([fn           |-> c.fn,
                  media_type   |-> c.media_type,
                  media_status |-> c.media_status,
                  country      |-> c.country,
                  genre        |-> c.genre])
    /\ UNCHANGED <<snapshot, cat, rankings, files, requests, responses, raised, printed>>

\* lines 192-202: the call's result becomes the value of the category's key
MainStore ==
    /\ pc = "returned"
    /\ cat \in 1..Len(Categories)
    /\ rankings' = Append(rankings,
                          [rank_type  |-> IF snapshot = "al_ranked"
                                          THEN Categories[cat].name
                                          ELSE LegacyCategories[cat].name,
                           media_list |-> ranked_media])
    /\ cat' = cat + 1
    /\ pc' = "main"
    /\ UNCHANGED <<snapshot, args, variables, sort_criteria, page, pending, ranked_media,
                   files, requests, responses, raised, printed>>

\* new_csv called as soon as one category is collected
ExportReady_per_category == pc = "main" /\ cat > 1

\* new_csv is called once the dict literal is complete
ExportReady == pc = "main" /\ cat > Len(Categories)

\* lines 170-176: one iteration of new_csv's loop, the whole file
NewCsv ==
    /\ ExportReady
    /\ Len(files) < Len(rankings)
    /\ LET entry == rankings[Len(files) + 1] IN
       files' = Append(files, [csv_name   |-> entry.rank_type \o ".csv",
                               fieldnames |-> <<"id", "title", "rank">>,
                               rows       |-> entry.media_list])
    /\ pc' = IF Len(files') = Len(rankings) THEN "done" ELSE pc
    /\ UNCHANGED <<snapshot, cat, args, variables, sort_criteria, page, pending,
                   ranked_media, rankings, requests, responses, raised, printed>>

----------------------------------------------------------------------------
\* The run of main().

\* no call of get_top_media has been made
NoArgs == [fn |-> "", media_type |-> "", media_status |-> None, country |-> None,
           genre |-> None]

Snapshots == {"al_ranked", "ALRanked"}

Init ==
    /\ snapshot \in Snapshots
    /\ pc = "main"
    /\ cat = 1
    /\ args = NoArgs
    /\ variables = [perPage |-> PER_PAGE]
    /\ sort_criteria = SCORE_SORT
    /\ page = 1
    /\ pending = <<>>
    /\ ranked_media = <<>>
    /\ rankings = <<>>
    /\ files = <<>>
    /\ requests = <<>>
    /\ responses = <<>>
    /\ raised = NoException
    /\ printed = <<>>

Next == MainCall \/ Request \/ MergeItem \/ EndPage \/ MainStore \/ NewCsv

Spec == Init /\ [][Next]_vars

----------------------------------------------------------------------------
\* One call of get_top_media with arbitrary arguments.

MediaTypes == {"ANIME", "MANGA"}
Statuses == {None, Some(""), Some("RELEASING"), Some("NOT_YET_RELEASED")}
Countries == {None, Some(""), Some("KR")}
Genres == {None, Some(""), Some("hentai")}
ArgSpace == [fn : {"get_top_media"}, media_type : MediaTypes, media_status : Statuses,
             country : Countries, genre : Genres]

\* ALRanked: each function with the str arguments it takes
LegacyArgSpace ==
    [fn : {"get_top_media"}, media_type : MediaTypes, media_status : {None},
     country : {None}, genre : {None}]
    \cup [fn : {"get_top_media_by_status"}, media_type : MediaTypes,
          media_status : Statuses \ {None}, country : {None}, genre : {None}]
    \cup [fn : {"get_top_media_by_country"}, media_type : MediaTypes,
          media_status : {None}, country : Countries \ {None}, genre : {None}]
    \cup [fn : {"get_top_media_by_genre"}, media_type : MediaTypes,
          media_status : {None}, country : {None}, genre : Genres \ {None}]

InitCollect ==
    /\ snapshot \in Snapshots
    /\ pc = "idle"
    /\ cat = 0
    /\ args = NoArgs
    /\ variables = [perPage |-> PER_PAGE]
    /\ sort_criteria = SCORE_SORT
    /\ page = 1
    /\ pending = <<>>
    /\ ranked_media = <<>>
    /\ rankings = <<>>
    /\ files = <<>>
    /\ requests = <<>>
    /\ responses = <<>>
    /\ raised = NoException
    /\ printed = <<>>

\* a caller other than main calls get_top_media
Call ==
    /\ pc = "idle"
    /\ \E a \in (IF snapshot = "al_ranked" THEN ArgSpace ELSE LegacyArgSpace) : Enter(a)
    /\ UNCHANGED <<snapshot, cat, rankings, files, requests, responses, raised, printed>>

NextCollect == Call \/ Request \/ MergeItem \/ EndPage

SpecCollect == InitCollect /\ [][NextCollect]_vars

----------------------------------------------------------------------------
\* Vocabulary of the properties.

\* the responses received by the get_top_media call in progress (or just returned)
CallResponses ==
    IF pc \in {"merge", "returned"}
    THEN SubSeq(responses, Len(responses) - page + 1, Len(responses))
    ELSE <<>>

RECURSIVE Flatten(_)
\* the items of the given responses, in the order returned
Flatten(rs) == IF rs = <<>> THEN <<>> ELSE rs[1].items \o Flatten(Tail(rs))

IdsOf(s) == { s[i].id : i \in 1..Len(s) }

NoRepeat(s) == \A i, j \in 1..Len(s) : s[i].id = s[j].id => i = j

RECURSIVE Dedup(_, _)
Dedup(s, seen) ==
    IF s = <<>> THEN <<>>
    ELSE IF s[1].id \in seen THEN Dedup(Tail(s), seen)
    ELSE <<s[1]>> \o Dedup(Tail(s), seen \cup {s[1].id})

\* the items of s whose id did not occur earlier in s
FirstOccurrences(s) == Dedup(s, {})

\* the records of the items of s, the k-th with rank k
RankedInOrder(s) ==
    [k \in 1..Len(s) |-> [id |-> s[k].id, title |-> s[k].title.romaji, rank |-> k]]

\* the two responses of the c-th category of a run
CategoryResponses(c) == SubSeq(responses, 2 * c - 1, 2 * c)

TransportFailures == {"http_error", "connection_refused", "connect_timeout", "read_timeout"}

----------------------------------------------------------------------------
\* Ranks and rows.

\* C1: in every file written by new_csv, the rank column read in row order is
\* 1, 2, ..., n, whatever the remote returned on pages 1 and 2 (repeated ids included).
C1_RankColumnIsOneToN ==
    snapshot = "al_ranked" =>
        \A f \in 1..Len(files) :
            \A i \in 1..Len(files[f].rows) : files[f].rows[i].rank = i

\* C2: when both pages of a call succeed and no id is returned twice, the k-th item of
\* page 1 followed by page 2 gets rank k, also when page 1 is short or empty.
C2_ConcatenationGetsRankK ==
    (pc = "returned" /\ NoRepeat(Flatten(CallResponses)))
        => ranked_media = RankedInOrder(Flatten(CallResponses))

\* C2 witness: a call returned after two non-empty pages without a repeated id; the
\* first item of page 2 holds rank (number of items of page 1) + 1.
C2_Witness ==
    /\ snapshot = "al_ranked"
    /\ pc = "returned"
    /\ Len(CallResponses) = 2
    /\ Len(CallResponses[1].items) >= 1
    /\ Len(CallResponses[2].items) >= 1
    /\ NoRepeat(Flatten(CallResponses))
    /\ ranked_media[Len(CallResponses[1].items) + 1].id = CallResponses[2].items[1].id
    /\ ranked_media[Len(CallResponses[1].items) + 1].rank = Len(CallResponses[1].items) + 1

\* C3: for every category whose two page requests succeeded, the file written for it
\* has as many rows as distinct ids were returned on its two pages, and every returned
\* id has exactly one row.
C3_OneRowPerDistinctId ==
    \A f \in 1..Len(files) :
        LET rs   == CategoryResponses(f)
            rows == files[f].rows
        IN  (\A n \in 1..Len(rs) : rs[n].outcome = "ok")
            => /\ files[f].csv_name = Categories[f].name \o ".csv"
               /\ Len(rows) = Cardinality(IdsOf(Flatten(rs)))
               /\ \A x \in IdsOf(Flatten(rs)) :
                     Cardinality({i \in 1..Len(rows) : rows[i].id = x}) = 1

\* C3 witness: a file was written for a category to which the remote returned the
\* same id twice, and it has one row.
C3_Witness ==
    snapshot = "al_ranked" /\ \E f \in 1..Len(files) :
        /\ Len(Flatten(CategoryResponses(f))) = 2
        /\ ~NoRepeat(Flatten(CategoryResponses(f)))
        /\ Len(files[f].rows) = 1

\* C4: an id returned again within a call is discarded: the result is what the
\* first occurrences alone would have given, each keeping its first rank.
C4_LaterOccurrenceDiscarded ==
    (snapshot = "al_ranked" /\ pc = "returned") => ranked_media = RankedInOrder(FirstOccurrences(Flatten(CallResponses)))

----------------------------------------------------------------------------
\* Failures.

\* C5: a transport failure on a page does not raise out of get_top_media: the page
\* contributes nothing and the run goes on to the remaining pages and categories.
C5_TransportFailureDegrades ==
    snapshot = "al_ranked" => \A n \in 1..Len(responses) :
        responses[n].ret = "None" => (raised = NoException /\ pc # "aborted")

\* C6: post_graphql_request lets no transport failure escape: on connection refused,
\* on a timeout (connecting or reading) and on a non-2xx status it prints a
\* diagnostic and returns None.
C6_TransportFailureCaught ==
    /\ raised.in # "post_graphql_request"
    /\ \A n \in 1..Len(responses) :
          responses[n].outcome \in TransportFailures
              => (responses[n].ret = "None" /\ printed # <<>>)

----------------------------------------------------------------------------
\* Queries.

\* C7: every query of a call carries POPULARITY_DESC when media_status is exactly
\* NOT_YET_RELEASED and SCORE_DESC otherwise, whatever the other arguments are, and
\* the same criterion on page 1 and on page 2.
C7_SortFromStatusAlone ==
    \A n \in 1..Len(requests) :
        requests[n].query.sort_criteria =
            (IF args.media_status = <<"NOT_YET_RELEASED">>
             THEN "POPULARITY_DESC" ELSE "SCORE_DESC")

\* C7 witness: page 2 of a call with status NOT_YET_RELEASED, a country and a genre
\* was requested with POPULARITY_DESC.
C7_Witness ==
    /\ snapshot = "al_ranked"
    /\ Len(requests) = 2
    /\ args.media_status = <<"NOT_YET_RELEASED">>
    /\ args.country = <<"KR">>
    /\ args.genre = <<"hentai">>
    /\ requests[2].variables.page = 2
    /\ requests[2].query.sort_criteria = "POPULARITY_DESC"

\* the filters the claim C8 expects: the present and non-empty ones, genre quoted
ClaimedFilters(a) ==
    (IF a.media_type # "" THEN << "type: " \o a.media_type >> ELSE <<>>)
    \o (IF Truthy(a.media_status) THEN << "status: " \o a.media_status[1] >> ELSE <<>>)
    \o (IF Truthy(a.country) THEN << "countryOfOrigin: " \o a.country[1] >> ELSE <<>>)
    \o (IF Truthy(a.genre) THEN << "genre: \"" \o a.genre[1] \o "\"" >> ELSE <<>>)

\* C8: the filters build_query emits are exactly the present and non-empty ones, in the order
\* type, status, countryOfOrigin, genre; nothing is emitted for an absent or empty
\* field; only the genre value is quoted.
C8_OnlyPresentNonEmptyFilters ==
    snapshot = "al_ranked" => \A n \in 1..Len(requests) :
        requests[n].query.query_filters = Join(", ", ClaimedFilters(args))

----------------------------------------------------------------------------
\* Order of the run.

\* the filters of the nine categories, in the order main visits them
RunOrder ==
    << "type: ANIME", "type: MANGA",
       "type: ANIME, status: RELEASING", "type: ANIME, status: NOT_YET_RELEASED",
       "type: MANGA, status: RELEASING", "type: MANGA, status: NOT_YET_RELEASED",
       "type: MANGA, countryOfOrigin: KR",
       "type: ANIME, genre: \"hentai\"", "type: MANGA, genre: \"hentai\"" >>

\* every item returned so far is in the result of its category
AllMerged ==
    \A n \in 1..Len(responses) :
        LET c == (n + 1) \div 2 IN
        IdsOf(responses[n].items) \subseteq
            IdsOf(IF c <= Len(rankings) THEN rankings[c].media_list ELSE ranked_media)

\* the n-th request of a run is page 1 or 2 of category (n + 1) \div 2, perPage = 50
C9_RequestsInOrder ==
    /\ Len(requests) <= 18
    /\ \A n \in 1..Len(requests) :
          /\ requests[n].query.query_filters = RunOrder[(n + 1) \div 2]
          /\ requests[n].variables = [perPage |-> 50, page |-> 2 - (n % 2)]
    /\ pc = "done" => Len(requests) = 18

\* a request is issued only when everything returned before it has been merged
C9_RequestAfterMerge ==
    Len(requests') # Len(requests)
        => /\ Len(requests') = Len(requests) + 1
           /\ pending = <<>>
           /\ AllMerged

\* C9: the requests of a run are strictly sequenced: per category exactly one request
\* for page 1, then one for page 2, perPage = 50, each issued only after the items of
\* all earlier responses are merged, the categories in the fixed order; a run that
\* does not abort issues exactly 18 requests.
C9_StrictlySequenced == []C9_RequestsInOrder /\ [][C9_RequestAfterMerge]_vars

\* C9 witness: a run completed, its 18th request being page 2 of All Hentai Manga.
C9_Witness ==
    /\ snapshot = "al_ranked"
    /\ pc = "done"
    /\ Len(requests) = 18
    /\ requests[18].query.query_filters = "type: MANGA, genre: \"hentai\""
    /\ requests[18].variables.page = 2

\* C10: files are written only after all 18 page requests have returned and been
\* merged; a run that aborts on a lookup failure has written no file, the categories
\* collected before the abort included.
C10_ExportAllOrNothing ==
    /\ files # <<>> => /\ Len(requests) = 18
                       /\ Len(responses) = 18
                       /\ Len(rankings) = 9
                       /\ pending = <<>>
                       /\ AllMerged
                       /\ raised = NoException
    /\ raised # NoException => (pc = "aborted" /\ files = <<>>)

\* C10 witness: the run aborted on a KeyError after categories had been collected,
\* and no file exists.
C10_Witness ==
    /\ snapshot = "al_ranked"
    /\ pc = "aborted"
    /\ raised = [exc |-> "KeyError", in |-> "get_top_media"]
    /\ Len(rankings) >= 2
    /\ rankings[1].media_list # <<>>
    /\ files = <<>>

====
